---- MODULE Spec2Model ----
(***************************************************************************)
(* Model of examples/libevent-client.c: a single-shot HTTP/2 client on     *)
(* libevent bufferevents and the nghttp2 session API.                      *)
(*                                                                         *)
(* The program's own code (the handlers, the context constructors and      *)
(* destructors, run and main) is translated from the source.  The parts   *)
(* outside that file - the nghttp2 session engine, the bufferevent        *)
(* transport with its TLS layer, and the peer - are modelled by their     *)
(* interface contract.                                                     *)
(***************************************************************************)
EXTENDS Integers, Sequences, FiniteSets, TLC

(***************************************************************************)
(* Bounds of the model.                                                    *)
(***************************************************************************)
\* events the peer and the network inject in one run: frames sent, and the
\* end-of-file, error or timeout that ends the connection
MaxPeerEvents == 2
\* frames that may wait in the bufferevent input buffer
MaxInput == 2
\* values an uninitialised size_t / length is drawn from: 0 .. MaxGarbageLen
MaxGarbageLen == 1

(***************************************************************************)
(* Program constants.                                                      *)
(***************************************************************************)
\* size_t extra = 7
AuthorityExtra == 7
\* stream_data->stream_id = -1
UnassignedStreamId == -1

NULL == "NULL"
LIVE == "LIVE"

(***************************************************************************)
(* Bytes.  A byte is a one-character string; "NUL" is the zero byte.       *)
(* HeapBytes are the values a byte of fresh malloc memory may hold.        *)
(***************************************************************************)
HeapBytes == {"?", "NUL"}

Min(a, b) == IF a < b THEN a ELSE b

\* malloc(n): n bytes of indeterminate content (all drawn as the byte hb),
\* none of them written yet
Malloc(n, hb) == [buf |-> [i \in 1..n |-> hb], written |-> {}, oob |-> FALSE]

\* memcpy(m + off, src, Len(src)): bytes landing outside the allocation are
\* an out-of-bounds write (undefined behaviour), recorded in oob
Memcpy(m, off, src) ==
  [buf |-> [i \in 1..Len(m.buf) |->
              IF i > off /\ i <= off + Len(src) THEN src[i - off] ELSE m.buf[i]],
   written |-> m.written \cup {i \in 1..Len(m.buf) : i > off /\ i <= off + Len(src)},
   oob |-> m.oob \/ (off + Len(src) > Len(m.buf) /\ Len(src) > 0)]

Take(s, n) == SubSeq(s, 1, Min(n, Len(s)))

DigitChar(d) == <<"0", "1", "2", "3", "4", "5", "6", "7", "8", "9">>[d + 1]

\* the decimal rendering printf gives for %u
RECURSIVE Utoa(_)
Utoa(n) == IF n < 10 THEN <<DigitChar(n)>>
           ELSE Utoa(n \div 10) \o <<DigitChar(n % 10)>>

\* snprintf(m + off, size, ":%u", port): writes at most size-1 characters and
\* the terminating zero byte; returns the length of the full rendering
Snprintf(m, off, size, port) ==
  LET full == <<":">> \o Utoa(port)
      out  == Take(full, size - 1) \o <<"NUL">>
  IN  [m |-> Memcpy(m, off, out), ret |-> Len(full)]

(***************************************************************************)
(* struct http_parser_url as the program reads it.  field_set is the set   *)
(* of components the parser found; host, path, query are the byte ranges   *)
(* uri[off .. off+len) of field_data.  For a component that is not in      *)
(* field_set the parser leaves field_data untouched, and the struct is an  *)
(* uninitialised local of run(): the range read there is indeterminate.    *)
(***************************************************************************)
FieldSets ==
  { {"UF_SCHEMA", "UF_HOST", "UF_PATH"},
    {"UF_SCHEMA", "UF_HOST", "UF_PORT", "UF_PATH"},
    {"UF_SCHEMA", "UF_HOST", "UF_PATH", "UF_QUERY"},
    {"UF_SCHEMA", "UF_HOST", "UF_PORT", "UF_PATH", "UF_QUERY"},
    {"UF_SCHEMA", "UF_HOST"},
    {"UF_SCHEMA", "UF_HOST", "UF_PORT", "UF_QUERY"},
    {"UF_PATH"} }

Hosts   == { <<"h">>, <<"h", "o">> }
Ports   == { 7, 443, 8443, 65535 }
Paths   == { <<"/">>, <<"/", "a">> }
Queries == { <<"x">>, <<"x", "=", "1">> }

\* what an unset field_data entry may denote
GarbageRanges == { <<>> } \cup { [i \in 1..n |-> "g"] : n \in 1..MaxGarbageLen }

\* the results http_parser_parse_url can leave in u, with its return value rv
ParsedUris ==
  { [rv |-> 1, field_set |-> {}, host |-> <<>>, port |-> 0, path |-> <<>>, query |-> <<>>] }
  \cup
  { [rv |-> 0, field_set |-> fs, host |-> h, port |-> p, path |-> pa, query |-> q] :
      fs \in FieldSets,
      h  \in Hosts \cup GarbageRanges,
      p  \in Ports \cup {0},
      pa \in Paths \cup GarbageRanges,
      q  \in Queries \cup GarbageRanges }

WellFormedParse(u) ==
  /\ ("UF_HOST" \in u.field_set) <=> (u.host \in Hosts)
  /\ ("UF_PORT" \in u.field_set) <=> (u.port \in Ports)
  /\ ("UF_PATH" \in u.field_set) <=> (u.path \in Paths)
  /\ ("UF_QUERY" \in u.field_set) <=> (u.query \in Queries)

(***************************************************************************)
(* create_http2_stream_data.  hb is the content of fresh heap memory and   *)
(* gl the indeterminate value of the pathlen member of the fresh struct.   *)
(* The result carries ub = TRUE when the function performed an undefined   *)
(* operation: a memcpy through the never-assigned authority pointer, or a  *)
(* write outside the path allocation.                                      *)
(***************************************************************************)
create_http2_stream_data(u, hb, gl) ==
  LET hostlen == Len(u.host)
      has_port == "UF_PORT" \in u.field_set
      a0 == Malloc(hostlen + AuthorityExtra, hb)
      sn == Snprintf(a0, hostlen, AuthorityExtra, u.port)
      a1 == Memcpy(sn.m, 0, u.host)
      authoritylen == IF has_port THEN hostlen + sn.ret ELSE hostlen
      pl0 == IF "UF_PATH" \in u.field_set THEN Len(u.path) ELSE gl
      pathlen == IF "UF_QUERY" \in u.field_set THEN pl0 + Len(u.query) + 1 ELSE pl0
      p0 == Malloc(pathlen, hb)
      p1 == Memcpy(p0, 0, u.path)
      p2 == Memcpy(p1, Len(u.path) + 1, u.query)
  IN  [sd |-> [authority_ptr |-> IF has_port THEN "heap" ELSE "wild",
               authority |-> IF has_port THEN a1.buf ELSE <<>>,
               authoritylen |-> authoritylen,
               path |-> p2.buf,
               path_written |-> p2.written,
               pathlen |-> pathlen,
               stream_id |-> UnassignedStreamId],
       ub |-> (~has_port /\ hostlen > 0) \/ p2.oob]

(***************************************************************************)
(* State.                                                                  *)
(*   pc            where the process is: "main", "run", "loop" (inside     *)
(*                 event_base_loop), "exit0" (main returned 0), "exit1"    *)
(*                 (exit(EXIT_FAILURE) or errx(1, ...)), "crashed"         *)
(*   argc, u       the command line and what the URI parser makes of it    *)
(*   session_data  http2_session_data: its four pointers, NULL or LIVE     *)
(*   stream_data   the http2_stream_data that stream_data points to        *)
(*   session       the nghttp2_session that session points to              *)
(*   bev           the bufferevent that bev points to                      *)
(*   stdout, diag  bytes written to stdout; messages written to stderr     *)
(*   hist          history of the run, read by the properties only         *)
(***************************************************************************)
VARIABLES pc, argc, u, session_data, stream_data, session, bev, stdout, diag, hist

vars == <<pc, argc, u, session_data, stream_data, session, bev, stdout, diag, hist>>

(***************************************************************************)
(* The nghttp2 session engine, by its interface contract.                  *)
(*   streams        identifiers of the open streams                        *)
(*   next_stream_id identifier the next request will get                   *)
(*   ob             frames submitted and not yet sent                      *)
(*   sd_stream      the stream whose user data is the stream context       *)
(*   goaway_sent, goaway_recv                                              *)
(***************************************************************************)
NoSession ==
  [streams |-> {}, next_stream_id |-> 0, ob |-> <<>>, sd_stream |-> 0,
   goaway_sent |-> FALSE, goaway_recv |-> FALSE]

\* nghttp2_session_client_new
nghttp2_session_client_new ==
  [streams |-> {}, next_stream_id |-> 1, ob |-> <<>>, sd_stream |-> 0,
   goaway_sent |-> FALSE, goaway_recv |-> FALSE]

OutFrame(type, cat, sid, ud) == [type |-> type, cat |-> cat, sid |-> sid, ud |-> ud]

\* nghttp2_session_want_read: until a GOAWAY was sent or received the engine
\* always wants to read; afterwards only while a stream is open
nghttp2_session_want_read(s) ==
  IF (~(s.goaway_sent \/ s.goaway_recv)) \/ s.streams # {} THEN 1 ELSE 0

\* nghttp2_session_want_write: frames are pending, and the session is not
\* finished in the sense above
nghttp2_session_want_write(s) ==
  IF s.ob # <<>> /\ ((~(s.goaway_sent \/ s.goaway_recv)) \/ s.streams # {})
  THEN 1 ELSE 0

\* nghttp2_session_get_stream_user_data
nghttp2_session_get_stream_user_data(s, sid) ==
  IF sid # 0 /\ sid = s.sd_stream THEN "SD" ELSE NULL

\* nghttp2_select_next_protocol: 1 when the HTTP/2 identifier is in the
\* server's list, 0 when only http/1.1 is, -1 otherwise
nghttp2_select_next_protocol(list) ==
  IF "h2" \in list THEN 1 ELSE IF "http/1.1" \in list THEN 0 ELSE -1

(***************************************************************************)
(* The callbacks the program registers with the engine.  Each takes and    *)
(* returns the part of the state a callback can touch:                     *)
(*   w.session, w.sd (stream context), w.out (bufferevent output buffer),  *)
(*   w.stdout, w.diag, w.hist.                                             *)
(***************************************************************************)
\* send_callback: bufferevent_write(bev, data, length); return length
send_callback(w, data) == [w EXCEPT !.out = Append(@, data)]

before_frame_send_callback_never(w, frame) == w

\* before_frame_send_callback
before_frame_send_callback(w, frame) ==
  IF frame.type = "HEADERS" /\ frame.cat = "REQUEST"
  THEN IF nghttp2_session_get_stream_user_data(w.session, frame.sid) = "SD"
       THEN [w EXCEPT !.sd.stream_id = frame.sid]
       ELSE w
  ELSE w

\* on_frame_recv_callback
on_frame_recv_callback(w, frame) ==
  IF frame.type = "HEADERS"
  THEN IF frame.cat = "RESPONSE" /\ w.sd.stream_id = frame.sid
       THEN [w EXCEPT !.diag = @ \cup {"Response headers"}]
       ELSE w
  ELSE w

on_data_chunk_recv_callback_any(w, sid, data) == [w EXCEPT !.stdout = @ \o data]

\* on_data_chunk_recv_callback: fwrite(data, len, 1, stdout)
on_data_chunk_recv_callback(w, sid, data) ==
  IF w.sd.stream_id = sid THEN [w EXCEPT !.stdout = @ \o data] ELSE w

\* nghttp2_submit_goaway: queue a GOAWAY frame
nghttp2_submit_goaway(w) ==
  [w EXCEPT !.session.ob = Append(@, OutFrame("GOAWAY", "NONE", 0, NULL)),
            !.hist.goaways = @ + 1]

on_stream_close_callback_silent(w, sid) == w

on_stream_close_callback_any_stream(w, sid) ==
  nghttp2_submit_goaway([w EXCEPT !.diag = @ \cup {"Stream closed"}])

\* on_stream_close_callback
on_stream_close_callback(w, sid) ==
  IF w.sd.stream_id = sid
  THEN nghttp2_submit_goaway([w EXCEPT !.diag = @ \cup {"Stream closed"}])
  ELSE w

(***************************************************************************)
(* The engine's two entry points, by their contract.                       *)
(***************************************************************************)
\* nghttp2_session_send: serialise every pending frame, in order.  A request
\* HEADERS frame gets its stream identifier here, when it is about to be
\* sent; the stream is opened with the user data given at submission.
RECURSIVE nghttp2_session_send(_)
nghttp2_session_send(w) ==
  IF w.session.ob = <<>> THEN w
  ELSE LET f0    == Head(w.session.ob)
           isreq == f0.type = "HEADERS" /\ f0.cat = "REQUEST"
           sid   == IF isreq THEN w.session.next_stream_id ELSE f0.sid
           f     == [f0 EXCEPT !.sid = sid]
           w1    == IF isreq
                    THEN [w EXCEPT !.session.ob = Tail(@),
                                   !.session.streams = @ \cup {sid},
                                   !.session.next_stream_id = @ + 2,
                                   !.session.sd_stream = IF f0.ud = "SD" THEN sid ELSE @,
                                   !.hist.req_id = sid]
                    ELSE [w EXCEPT !.session.ob = Tail(@)]
           w2    == before_frame_send_callback(w1, f)
           w3    == send_callback(w2, f.type)
           w4    == IF f.type = "GOAWAY"
                    THEN [w3 EXCEPT !.session.goaway_sent = TRUE]
                    ELSE w3
       IN  nghttp2_session_send(w4)

\* a frame of the peer as the engine decodes it
PeerFrame(type, sid, data, fin) == [type |-> type, sid |-> sid, data |-> data, fin |-> fin]

\* stream identifiers the peer's frames carry: the first client-initiated
\* stream, and a stream of the peer's making
PeerStreamIds == {1, 2}

ChunkData == { <<"a">>, <<"b", "c">> }

PeerFrames ==
  { PeerFrame(t, 0, <<>>, FALSE) : t \in {"SETTINGS", "GOAWAY", "BAD"} }
  \cup { PeerFrame("HEADERS", 1, <<>>, FALSE) }
  \cup { PeerFrame("RST_STREAM", sid, <<>>, FALSE) : sid \in PeerStreamIds }
  \cup { PeerFrame("DATA", 1, d, FALSE) : d \in ChunkData }
  \cup { PeerFrame("DATA", 1, <<"a">>, TRUE) }
  \cup { PeerFrame("DATA", 2, <<"a">>, FALSE) }

\* the engine closes stream sid: on_stream_close_callback, then the stream is
\* dropped from the session.  hist.closes keeps, for every stream-closed
\* event, the identifier, the captured identifier, the number of GOAWAY
\* frames the callback submitted and whether it changed anything else.
close_stream(w, sid) ==
  LET w1 == IF sid = w.session.sd_stream
            THEN [w EXCEPT !.hist.closed_reported = TRUE] ELSE w
      w2 == on_stream_close_callback(w1, sid)
      ev == [sid |-> sid, captured |-> w1.sd.stream_id,
             submitted |-> w2.hist.goaways - w1.hist.goaways,
             changed |-> [w2 EXCEPT !.hist = w1.hist] # w1]
  IN  [w2 EXCEPT !.session.streams = @ \ {sid},
                 !.hist.closes = @ \cup {ev}]

\* the engine processes one decoded frame.  A frame on the request's stream is
\* delivered while that stream is open; frames on streams the peer opened are
\* delivered with their own identifier.
recv_frame(w, f) ==
  LET own       == f.sid = w.session.sd_stream
      delivered == f.sid \in w.session.streams \/ (f.sid # 0 /\ ~own)
      noted     == IF own
                   THEN [w EXCEPT !.hist.exchange_ok = @ /\ (w.sd.stream_id = f.sid)]
                   ELSE w
  IN  CASE f.type = "SETTINGS" ->
             on_frame_recv_callback(
               [w EXCEPT !.session.ob = Append(@, OutFrame("SETTINGS_ACK", "NONE", 0, NULL))],
               OutFrame("SETTINGS", "NONE", 0, NULL))
        [] f.type = "GOAWAY" ->
             on_frame_recv_callback([w EXCEPT !.session.goaway_recv = TRUE],
                                    OutFrame("GOAWAY", "NONE", 0, NULL))
        [] f.type = "HEADERS" ->
             IF delivered
             THEN on_frame_recv_callback(
                    noted,
                    OutFrame("HEADERS", IF own THEN "RESPONSE" ELSE "PUSH_RESPONSE",
                             f.sid, NULL))
             ELSE w
        [] f.type = "DATA" ->
             IF delivered
             THEN LET w1 == [noted EXCEPT !.hist.chunks =
                                Append(@, [sid |-> f.sid, data |-> f.data,
                                           captured |-> w.sd.stream_id])]
                      w2 == on_data_chunk_recv_callback(w1, f.sid, f.data)
                  IN  IF f.fin THEN close_stream(w2, f.sid) ELSE w2
             ELSE w
        [] f.type = "RST_STREAM" ->
             IF delivered THEN close_stream(w, f.sid) ELSE w
        [] OTHER -> w

\* nghttp2_session_mem_recv: process the input frame by frame; the result is
\* the number of bytes (here: frames) consumed, or negative on a fatal error
RECURSIVE nghttp2_session_mem_recv(_, _)
nghttp2_session_mem_recv(w, in) ==
  IF in = <<>> THEN [w |-> w, rv |-> 0]
  ELSE IF Head(in).type = "BAD" THEN [w |-> w, rv |-> -1]
  ELSE LET r == nghttp2_session_mem_recv(recv_frame(w, Head(in)), Tail(in))
       IN  [w |-> r.w, rv |-> IF r.rv < 0 THEN r.rv ELSE r.rv + 1]

(***************************************************************************)
(* Teardown.                                                               *)
(***************************************************************************)
NoStreamData ==
  [authority_ptr |-> "none", authority |-> <<>>, authoritylen |-> 0, path |-> <<>>,
   path_written |-> {}, pathlen |-> 0, stream_id |-> UnassignedStreamId]

NoBev == [state |-> "none", output |-> <<>>, input |-> <<>>, writecb_pending |-> FALSE]

\* outcomes of an operation whose behaviour is undefined
UBOutcomes == {"crash", "continue"}

\* delete_http2_stream_data: free(path); free(authority); free(stream_data).
\* free() of the never-assigned authority pointer is undefined.
delete_http2_stream_data_ub(sd) == sd.authority_ptr = "wild"

\* the outcomes a call of delete_http2_session_data can meet
DeleteOutcomes(sdata, sd) ==
  IF sdata.bev = NULL \/ (sdata.stream_data # NULL /\ delete_http2_stream_data_ub(sd))
  THEN UBOutcomes ELSE {"continue"}

\* the release steps of delete_http2_session_data before the stream context
ReleaseOrder ==
  <<"SSL_shutdown", "bufferevent_free", "evdns_base_free", "nghttp2_session_del">>

\* delete_http2_session_data on the context c = [session_data, stream_data,
\* session, bev, hist]; o is the outcome taken where behaviour is undefined.
\* The result has crashed = TRUE when the process died inside the call.
delete_http2_session_data(c, o) ==
  LET nobev  == c.session_data.bev = NULL
      h1     == [c.hist EXCEPT !.teardown_calls = @ + 1, !.last.tore = TRUE]
      h2     == [h1 EXCEPT !.releases = @ \o ReleaseOrder]
      sd1    == [session |-> NULL, dnsbase |-> NULL, bev |-> NULL,
                 stream_data |-> c.session_data.stream_data]
      has_sd == c.session_data.stream_data # NULL
      ub_sd  == has_sd /\ delete_http2_stream_data_ub(c.stream_data)
  IN  IF nobev /\ o = "crash"
      THEN [c EXCEPT !.hist = h1, !.crashed = TRUE]
      ELSE IF ub_sd /\ o = "crash"
      THEN [session_data |-> sd1, stream_data |-> c.stream_data, session |-> NoSession,
            bev |-> NoBev, hist |-> h2, crashed |-> TRUE]
      ELSE [session_data |-> [sd1 EXCEPT !.stream_data = NULL],
            stream_data |-> NoStreamData, session |-> NoSession, bev |-> NoBev,
            hist |-> IF has_sd
                     THEN [h2 EXCEPT !.releases = Append(@, "delete_http2_stream_data")]
                     ELSE h2,
            crashed |-> FALSE]

\* session_send(session_data): nghttp2_session_send(session_data->session)
session_send(w) == nghttp2_session_send(w)

\* a callback passes session_data->session or session_data->bev, whose value
\* is handle, to the library: hist.dead_use records that it did so with a
\* handle that is not live
UseHandle(h, handle) == [h EXCEPT !.dead_use = @ \/ handle # LIVE]

(***************************************************************************)
(* Initial state: the process starts main() with some command line.  u is  *)
(* what http_parser_parse_url will make of argv[1].                        *)
(***************************************************************************)
NoLast == [name |-> "none", want_read |-> 0, want_write |-> 0, outlen |-> 0,
           tore |-> FALSE, rv |-> 0, offered |-> 0, drained |-> 0, left |-> 0,
           queued |-> 0, written |-> 0]

InitHist ==
  [teardown_calls |-> 0, releases |-> <<>>, chunks |-> <<>>, last |-> NoLast,
   peer_events |-> 0, closed_reported |-> FALSE, exchange_ok |-> TRUE, req_id |-> 0,
   requests |-> 0, goaways |-> 0, negotiated |-> "none", connects |-> 0,
   settings |-> {}, dead_use |-> FALSE, closes |-> {}]

ArgCounts == {1, 2, 3}

\* the parses the lifecycle is explored with
LifecycleUris ==
  { x \in ParsedUris :
      /\ WellFormedParse(x)
      /\ x.host \in {<<"h">>, <<>>}
      /\ x.port \in {0, 8443}
      /\ x.path \in {<<"/">>, <<>>}
      /\ x.query \in {<<"x">>, <<>>}
      /\ x.field_set \in { {"UF_SCHEMA", "UF_HOST", "UF_PATH"},
                           {"UF_SCHEMA", "UF_HOST", "UF_PORT", "UF_PATH", "UF_QUERY"},
                           {"UF_PATH"}, {} } }

\* the command lines the lifecycle is explored with: one argument with every
\* parse that has a host or fails, and no argument
ProgramInputs ==
  { in \in ArgCounts \X LifecycleUris :
      \/ in[1] = 2 /\ (in[2].rv # 0 \/ "UF_HOST" \in in[2].field_set)
      \/ in[1] = 1 /\ in[2].rv # 0 }

InitRest ==
  /\ pc = "main"
  /\ session_data = [session |-> NULL, dnsbase |-> NULL, bev |-> NULL, stream_data |-> NULL]
  /\ stream_data = NoStreamData
  /\ session = NoSession
  /\ bev = NoBev
  /\ stdout = <<>>
  /\ diag = {}
  /\ hist = InitHist

Init ==
  /\ \E in \in ProgramInputs : argc = in[1] /\ u = in[2]
  /\ InitRest

(***************************************************************************)
(* main and run.                                                           *)
(***************************************************************************)
\* main up to the call of run
main ==
  /\ pc = "main"
  /\ IF argc < 2
     THEN /\ diag' = diag \cup {"Usage"}
          /\ pc' = "exit1"
     ELSE /\ pc' = "run"
          /\ diag' = diag
  /\ UNCHANGED <<argc, u, session_data, stream_data, session, bev, stdout, hist>>

\* run up to the call of event_base_loop.  connect_rv is the result of
\* bufferevent_socket_connect_hostname.
run ==
  /\ pc = "run"
  /\ IF u.rv # 0
     THEN /\ pc' = "exit1"
          /\ diag' = diag \cup {"Could not parse URI"}
          /\ UNCHANGED <<session_data, stream_data, bev, hist>>
     ELSE \E hb \in HeapBytes, gl \in 0..MaxGarbageLen, o \in UBOutcomes, connect_rv \in {0, -1} :
            LET r == create_http2_stream_data(u, hb, gl)
            IN  IF r.ub /\ o = "crash"
                THEN /\ pc' = "crashed"
                     /\ session_data' = [session_data EXCEPT !.dnsbase = LIVE]
                     /\ UNCHANGED <<stream_data, bev, diag, hist>>
                ELSE /\ stream_data' = r.sd
                     /\ IF connect_rv # 0
                        THEN /\ pc' = "exit1"
                             /\ diag' = diag \cup {"Could not connect to the remote host"}
                             /\ session_data' = [session_data EXCEPT !.dnsbase = LIVE,
                                                                     !.stream_data = LIVE]
                             /\ UNCHANGED bev
                        ELSE /\ pc' = "loop"
                             /\ diag' = diag
                             /\ session_data' = [session_data EXCEPT !.dnsbase = LIVE,
                                                                     !.stream_data = LIVE,
                                                                     !.bev = LIVE]
                             /\ bev' = [NoBev EXCEPT !.state = "connecting"]
                     /\ hist' = [hist EXCEPT !.connects = @ + 1]
  /\ UNCHANGED <<argc, u, session, stdout>>

(***************************************************************************)
(* The event loop: the transport, the TLS layer and the peer.              *)
(***************************************************************************)
MkW == [session |-> session, sd |-> stream_data, out |-> bev.output,
        stdout |-> stdout, diag |-> diag, hist |-> hist]

MkC(w, b) == [session_data |-> session_data, stream_data |-> w.sd, session |-> w.session,
              bev |-> b, hist |-> w.hist, crashed |-> FALSE]

\* callbacks are dispatched for a bufferevent that has not been freed
Dispatching == pc = "loop" /\ session_data.bev = LIVE

\* what the server's hello may carry: no next-protocol extension at all, or
\* the extension with a list of protocol identifiers
ServerHellos ==
  { [npn |-> FALSE, list |-> {}] }
  \cup { [npn |-> TRUE, list |-> l] :
           l \in { {"h2"}, {"http/1.1"}, {"spdy/3"}, {"h2", "http/1.1"} } }

\* select_next_proto_cb: TRUE when it calls errx
select_next_proto_cb_aborts(in) == nghttp2_select_next_protocol(in) <= 0

\* The TLS handshake completes.  OpenSSL calls the next-protocol callback
\* (SSL_CTX_set_next_proto_select_cb) when the server's hello carries the
\* extension.
TlsHandshake ==
  /\ Dispatching /\ bev.state = "connecting"
  /\ \E hello \in ServerHellos :
       IF hello.npn /\ select_next_proto_cb_aborts(hello.list)
       THEN /\ pc' = "exit1"
            /\ diag' = diag \cup {"Server did not advertise"}
            /\ UNCHANGED <<bev, hist>>
       ELSE /\ pc' = pc
            /\ diag' = diag
            /\ bev' = [bev EXCEPT !.state = "handshaken"]
            /\ hist' = [hist EXCEPT !.negotiated = IF hello.npn THEN "h2" ELSE "none"]
  /\ UNCHANGED <<argc, u, session_data, stream_data, session, stdout>>

\* initialize_nghttp2_session
initialize_nghttp2_session(w) == [w EXCEPT !.session = nghttp2_session_client_new]

\* { NGHTTP2_SETTINGS_MAX_CONCURRENT_STREAMS, 100 }
MaxConcurrentStreams == 100

send_client_connection_header_without_preface(w) ==
  [w EXCEPT !.session.ob = Append(@, OutFrame("SETTINGS", "NONE", 0, NULL)),
            !.hist.settings = @ \cup {<<"MAX_CONCURRENT_STREAMS", MaxConcurrentStreams>>}]

\* send_client_connection_header: the settings entries submitted are kept in
\* hist.settings
send_client_connection_header(w) ==
  LET w1 == [w EXCEPT !.out = Append(@, "PRI")]
  IN  [w1 EXCEPT !.session.ob = Append(@, OutFrame("SETTINGS", "NONE", 0, NULL)),
                 !.hist.settings = @ \cup {<<"MAX_CONCURRENT_STREAMS",
                                             MaxConcurrentStreams>>}]

\* submit_request
submit_request(w) ==
  [w EXCEPT !.diag = @ \cup {"Request headers"},
            !.session.ob = Append(@, OutFrame("HEADERS", "REQUEST", 0, "SD")),
            !.hist.requests = @ + 1]

\* eventcb with BEV_EVENT_CONNECTED
eventcb_connected ==
  /\ Dispatching /\ bev.state = "handshaken"
  /\ LET w0 == [MkW EXCEPT !.diag = @ \cup {"Connected"}]
         w  == session_send(submit_request(send_client_connection_header(
                 initialize_nghttp2_session(w0))))
     IN  /\ session' = w.session
         /\ stream_data' = w.sd
         /\ bev' = [bev EXCEPT !.state = "open", !.output = w.out]
         /\ diag' = w.diag
         /\ hist' = [w.hist EXCEPT !.last = [NoLast EXCEPT !.name = "eventcb_connected"]]
         /\ session_data' = [session_data EXCEPT !.session = LIVE]
  /\ UNCHANGED <<pc, argc, u, stdout>>

FailureEvents == {"BEV_EVENT_EOF", "BEV_EVENT_ERROR", "BEV_EVENT_TIMEOUT"}

\* the warnx of eventcb
eventcb_message(ev) ==
  CASE ev = "BEV_EVENT_EOF" -> "Disconnected from the remote host"
    [] ev = "BEV_EVENT_ERROR" -> "Network error"
    [] OTHER -> "Timeout"

\* eventcb without BEV_EVENT_CONNECTED
eventcb_failure ==
  /\ Dispatching
  /\ hist.peer_events < MaxPeerEvents
  /\ \E ev \in FailureEvents, o \in DeleteOutcomes(session_data, stream_data) :
       LET h == [hist EXCEPT !.last = [NoLast EXCEPT !.name = "eventcb_failure"],
                             !.peer_events = @ + 1]
           c == delete_http2_session_data(MkC([MkW EXCEPT !.hist = h], bev), o)
       IN  /\ diag' = diag \cup {eventcb_message(ev)}
           /\ session_data' = c.session_data
           /\ stream_data' = c.stream_data
           /\ session' = c.session
           /\ bev' = c.bev
           /\ hist' = c.hist
           /\ pc' = IF c.crashed THEN "crashed" ELSE pc
  /\ UNCHANGED <<argc, u, stdout>>

\* the peer's next frame arrives in the input buffer
PeerSend ==
  /\ Dispatching /\ bev.state = "open"
  /\ hist.peer_events < MaxPeerEvents
  /\ Len(bev.input) < MaxInput
  /\ \E f \in PeerFrames :
       /\ bev' = [bev EXCEPT !.input = Append(@, f)]
       /\ hist' = [hist EXCEPT !.peer_events = @ + 1]
  /\ UNCHANGED <<pc, argc, u, session_data, stream_data, session, stdout, diag>>

\* the transport writes the output buffer to the socket; the buffer is then
\* empty and the write callback becomes due
TransportWrite ==
  /\ Dispatching /\ bev.state = "open"
  /\ bev.output # <<>>
  /\ bev' = [bev EXCEPT !.output = <<>>, !.writecb_pending = TRUE]
  /\ UNCHANGED <<pc, argc, u, session_data, stream_data, session, stdout, diag, hist>>

writecb_should_close_ignoring_output(s, b) ==
  /\ nghttp2_session_want_read(s) = 0
  /\ nghttp2_session_want_write(s) = 0

\* the condition of writecb
writecb_should_close(s, b) ==
  /\ nghttp2_session_want_read(s) = 0
  /\ nghttp2_session_want_write(s) = 0
  /\ Len(b.output) = 0

\* writecb
writecb ==
  /\ Dispatching /\ bev.state = "open"
  /\ bev.writecb_pending
  /\ \E o \in IF writecb_should_close(session, bev)
             THEN DeleteOutcomes(session_data, stream_data) ELSE {"continue"} :
       LET close == writecb_should_close(session, bev)
           h == [UseHandle(UseHandle(hist, session_data.session), session_data.bev)
                   EXCEPT !.last = [NoLast EXCEPT
                              !.name = "writecb",
                              !.want_read = nghttp2_session_want_read(session),
                              !.want_write = nghttp2_session_want_write(session),
                              !.outlen = Len(bev.output)]]
           b == [bev EXCEPT !.writecb_pending = FALSE]
           c == IF close
                THEN delete_http2_session_data(MkC([MkW EXCEPT !.hist = h], b), o)
                ELSE MkC([MkW EXCEPT !.hist = h], b)
       IN  /\ session_data' = c.session_data
           /\ stream_data' = c.stream_data
           /\ session' = c.session
           /\ bev' = c.bev
           /\ hist' = c.hist
           /\ pc' = IF c.crashed THEN "crashed" ELSE pc
  /\ UNCHANGED <<argc, u, stdout, diag>>

\* the outcomes readcb can meet: none when ingestion succeeds
ReadcbOutcomes ==
  IF nghttp2_session_mem_recv(MkW, bev.input).rv < 0 THEN UBOutcomes ELSE {"continue"}

drain_nothing(input, n) == input

\* evbuffer_drain(input, n): the first n bytes leave the buffer
evbuffer_drain(input, n) == SubSeq(input, n + 1, Len(input))

\* readcb.  hist.last keeps datalen (offered), the count passed to
\* evbuffer_drain (drained), the input left at return (left), the frames the
\* engine held after ingestion (queued) and the frames written to the
\* transport by the final session_send (written).
readcb ==
  /\ Dispatching /\ bev.state = "open"
  /\ bev.input # <<>>
  /\ \E o \in ReadcbOutcomes, o2 \in ReadcbOutcomes :
       LET datalen == Len(bev.input)
           r  == nghttp2_session_mem_recv(MkW, SubSeq(bev.input, 1, datalen))
           h  == [UseHandle(r.w.hist, session_data.session)
                    EXCEPT !.last = [NoLast EXCEPT !.name = "readcb", !.rv = r.rv,
                                                   !.offered = datalen,
                                                   !.queued = Len(r.w.session.ob)]]
           w1 == [r.w EXCEPT !.hist = h]
       IN  IF r.rv < 0
           THEN LET c == delete_http2_session_data(
                           MkC([w1 EXCEPT !.diag = @ \cup {"Fatal error"}],
                               [bev EXCEPT !.output = w1.out]), o)
                IN  /\ session_data' = c.session_data
                    /\ stream_data' = c.stream_data
                    /\ session' = c.session
                    /\ bev' = c.bev
                    \* session_send(session_data) follows unless teardown died
                    /\ hist' = IF c.crashed THEN c.hist
                               ELSE UseHandle(c.hist, c.session_data.session)
                    /\ stdout' = w1.stdout
                    /\ diag' = w1.diag \cup {"Fatal error"}
                    \* nghttp2_session_send(NULL) is undefined
                    /\ pc' = IF c.crashed \/ o2 = "crash" THEN "crashed" ELSE pc
           ELSE LET input == evbuffer_drain(bev.input, r.rv)
                    w2 == session_send([w1 EXCEPT !.hist = UseHandle(@, session_data.session)])
                IN  /\ session_data' = session_data
                    /\ stream_data' = w2.sd
                    /\ session' = w2.session
                    /\ bev' = [bev EXCEPT !.input = input, !.output = w2.out]
                    /\ hist' = [w2.hist EXCEPT !.last.drained = r.rv,
                                               !.last.left = Len(input),
                                               !.last.written = Len(w2.out) - Len(bev.output)]
                    /\ stdout' = w2.stdout
                    /\ diag' = w2.diag
                    /\ pc' = pc
  /\ UNCHANGED <<argc, u>>

\* event_base_loop returns when no event is left; run and main return
LoopExit ==
  /\ pc = "loop"
  /\ session_data.bev = NULL /\ session_data.dnsbase = NULL
  /\ pc' = "exit0"
  /\ UNCHANGED <<argc, u, session_data, stream_data, session, bev, stdout, diag, hist>>

Next ==
  \/ main
  \/ run
  \/ TlsHandshake
  \/ eventcb_connected
  \/ eventcb_failure
  \/ PeerSend
  \/ TransportWrite
  \/ writecb
  \/ readcb
  \/ LoopExit

Spec == Init /\ [][Next]_vars

(***************************************************************************)
(* Specifications for the URI derivation alone, and with the fairness of   *)
(* the event loop.                                                         *)
(***************************************************************************)
InitUri ==
  /\ argc = 2
  /\ u \in {x \in ParsedUris : WellFormedParse(x)}
  /\ InitRest

NextUri ==
  \/ main
  \/ run

SpecUri == InitUri /\ [][NextUri]_vars

\* the command lines with no argument, one, or two, where the first argument
\* (when there is one) is a URI with host and port
InitArgs ==
  /\ argc \in ArgCounts
  /\ u \in {x \in ParsedUris :
              WellFormedParse(x) /\ {"UF_HOST", "UF_PORT"} \subseteq x.field_set}
  /\ InitRest

SpecArgs == InitArgs /\ [][NextUri]_vars

\* the event loop writes a non-empty output buffer and runs a due callback
LiveSpec == Spec /\ WF_vars(TransportWrite) /\ WF_vars(writecb)

(***************************************************************************)
(* Properties.                                                             *)
(***************************************************************************)
AllReleased == ReleaseOrder \o <<"delete_http2_stream_data">>

TornDown == hist.teardown_calls > 0

\* C1: at every write completion, writecb tears the connection down if and
\* only if the output buffer is empty and the engine wants neither to read
\* nor to write.
C1_WritecbClosesIffIdle ==
  hist.last.name = "writecb" =>
    (hist.last.tore <=> (hist.last.outlen = 0 /\ hist.last.want_read = 0
                         /\ hist.last.want_write = 0))

\* C1 witness: a write completion that closed the connection
C1_Witness ==
  hist.last.name = "writecb" /\ hist.last.tore /\ hist.last.outlen = 0
  /\ hist.last.want_read = 0

\* C1, the other direction reached: a write completion with the engine
\* finished but output still buffered, which did not close
C1_WitnessKeptOpen ==
  hist.last.name = "writecb" /\ ~hist.last.tore /\ hist.last.outlen > 0
  /\ hist.last.want_read = 0

\* C2: teardown runs at most once per run and, once it has run, it has
\* released the security layer, the transport, the resolver, the protocol
\* session and the stream context, in that order.
C2_TeardownOnceInOrder ==
  /\ hist.teardown_calls <= 1
  /\ TornDown => hist.releases = AllReleased

\* C3: once the engine reported the request's stream closed, a GOAWAY has
\* been flushed to the transport (unless a failure tore the connection down
\* in the same callback), and teardown eventually runs.
C3_DrainingReachesClosed ==
  /\ [](hist.closed_reported /\ ~TornDown => session.goaway_sent /\ hist.goaways > 0)
  /\ (hist.closed_reported ~> TornDown)

\* C3 witness: the stream closed and the write-ready handler closed the
\* connection
C3_Witness ==
  hist.closed_reported /\ hist.last.name = "writecb" /\ hist.last.tore

\* C4: whenever a request has been submitted, the HTTP/2 identifier was
\* negotiated in the TLS handshake.
C4_RequestOnlyAfterH2 == hist.requests > 0 => hist.negotiated = "h2"

\* C5: the stream context's stream_id is assigned at most once, and at every
\* response-header and data-chunk event of the exchange it equals the stream
\* identifier of that event.
C5_StreamIdSetOnce ==
  /\ [](hist.exchange_ok)
  /\ [](session_data.stream_data = LIVE /\ stream_data.stream_id # UnassignedStreamId
          => stream_data.stream_id = hist.req_id)
  /\ [][(session_data.stream_data = LIVE /\ session_data'.stream_data = LIVE
         /\ stream_data.stream_id # UnassignedStreamId)
        => stream_data'.stream_id = stream_data.stream_id]_vars

\* C5 witness: a data chunk of the exchange arrived with the captured id
C5_Witness ==
  \E i \in 1..Len(hist.chunks) :
    hist.chunks[i].sid = hist.req_id /\ hist.chunks[i].captured = hist.req_id

RECURSIVE BodyOf(_)
BodyOf(cs) ==
  IF cs = <<>> THEN <<>>
  ELSE (IF Head(cs).sid = Head(cs).captured THEN Head(cs).data ELSE <<>>) \o BodyOf(Tail(cs))

\* C6: stdout holds exactly the data of the chunks received on the captured
\* stream, in arrival order.
C6_StdoutIsBody == stdout = BodyOf(hist.chunks)

\* C6 witness: chunks on both streams arrived and stdout is non-empty
C6_Witness ==
  /\ stdout # <<>>
  /\ \E i \in 1..Len(hist.chunks) : hist.chunks[i].sid # hist.chunks[i].captured

\* C7: after a transport EOF, error or timeout event, or a negative return
\* of ingestion, the whole connection context is torn down.
C7_FailureTearsDownAll ==
  (hist.last.name = "eventcb_failure" \/ (hist.last.name = "readcb" /\ hist.last.rv < 0))
    => /\ session_data = [session |-> NULL, dnsbase |-> NULL, bev |-> NULL,
                          stream_data |-> NULL]
       /\ hist.releases = AllReleased

\* C8: once teardown has completed the process leaves the loop and exits
\* normally; it does not crash.
C8_TeardownThenNormalExit ==
  hist.releases = AllReleased => pc \in {"loop", "exit0"}

\* C9: for a URI with a host, the derived authority is a defined string,
\* host:port with an explicit port and host alone (of the host's length)
\* without.
C9_AuthorityDerived ==
  (session_data.stream_data = LIVE /\ "UF_HOST" \in u.field_set) =>
    /\ stream_data.authority_ptr = "heap"
    /\ Take(stream_data.authority, stream_data.authoritylen) =
         (IF "UF_PORT" \in u.field_set THEN u.host \o <<":">> \o Utoa(u.port) ELSE u.host)
    /\ ("UF_PORT" \notin u.field_set => stream_data.authoritylen = Len(u.host))

\* C10: for a URI with a host and a path, the derived path is path?query
\* with a query and path alone without, and every byte of it within its
\* recorded length was written by the derivation.
C10_PathDerived ==
  (session_data.stream_data = LIVE /\ {"UF_HOST", "UF_PATH"} \subseteq u.field_set) =>
    /\ Take(stream_data.path, stream_data.pathlen) =
         (IF "UF_QUERY" \in u.field_set THEN u.path \o <<"?">> \o u.query ELSE u.path)
    /\ stream_data.path_written = 1..stream_data.pathlen

\* the parse of a string that is not a well-formed absolute URI: the parser
\* failed, or it succeeded without a host component
NotAbsoluteUri == u.rv # 0 \/ "UF_HOST" \notin u.field_set

\* C11: for an input that is not a well-formed absolute URI, once run has
\* run the process has reported the parse error and exited with a failure
\* status, no connection context exists and no connect was initiated.
C11_BadUriExitsBeforeConnect ==
  (NotAbsoluteUri /\ pc \notin {"main", "run"}) =>
    /\ pc = "exit1"
    /\ "Could not parse URI" \in diag
    /\ session_data = [session |-> NULL, dnsbase |-> NULL, bev |-> NULL,
                       stream_data |-> NULL]
    /\ hist.connects = 0

\* bufferevent_socket_connect_hostname failed inside initiate_connection
ConnectFailedAtInitiation ==
  hist.connects > 0 /\ session_data.bev = NULL /\ ~TornDown

\* the last callback was eventcb with an error event and the connected event
\* had not been delivered
ConnectFailedByEvent ==
  /\ hist.last.name = "eventcb_failure"
  /\ "Network error" \in diag
  /\ "Connected" \notin diag

\* C12: a connect failure, at initiation or reported by an error event before
\* the connected event, is reported on stderr and the process does not end
\* as a normal run: it ends with the failure status.
C12_ConnectFailureAborts ==
  /\ ConnectFailedAtInitiation =>
        pc = "exit1" /\ "Could not connect to the remote host" \in diag
  /\ ConnectFailedByEvent => pc # "exit0"

\* C13: when the number of positional arguments (argc - 1) is not exactly
\* one, the process ends having printed the usage line, with the failure
\* status, and without having attempted a connection.
C13_WrongArgCountIsUsageError ==
  (argc - 1 # 1 /\ pc \notin {"main", "run"}) =>
    /\ pc = "exit1"
    /\ "Usage" \in diag
    /\ hist.connects = 0

\* the step is the connected event's handler
ConnectedStep == bev.state = "handshaken" /\ bev'.state = "open"

\* C14: the connected handler, in one callback, creates the session, writes
\* the preface, submits SETTINGS with max concurrent streams 100, submits the
\* request and flushes: it leaves the preface, the SETTINGS frame and the
\* request HEADERS in the output buffer in that order and nothing queued.
\* Nothing is written before it, the preface is never written again, and at
\* most one request is submitted in a run.
C14_ConnectedHandlerOrder ==
  /\ [][ConnectedStep =>
          /\ session_data.session = NULL /\ session_data'.session = LIVE
          /\ hist.requests = 0 /\ hist'.requests = 1
          /\ hist'.settings = {<<"MAX_CONCURRENT_STREAMS", 100>>}
          /\ bev.output = <<>>
          /\ bev'.output = <<"PRI", "SETTINGS", "HEADERS">>
          /\ session'.ob = <<>>]_vars
  /\ [](bev.state \in {"connecting", "handshaken"} =>
          bev.output = <<>> /\ hist.requests = 0)
  /\ [][bev.state = "open" =>
          /\ hist'.requests = hist.requests
          /\ \A i \in 1..Len(bev'.output) :
                bev'.output[i] = "PRI" => (i = 1 /\ bev.output # <<>>)]_vars
  /\ [](hist.requests <= 1)

\* C14 witness: the connected handler has just run and its output is still
\* in the buffer
C14_Witness ==
  /\ hist.last.name = "eventcb_connected"
  /\ bev.output = <<"PRI", "SETTINGS", "HEADERS">>
  /\ hist.requests = 1

\* the connection lifecycle state of the run: after a teardown call, Closed
\* when the write-ready handler made it and Failed otherwise; before, by the
\* progress of the transport and of the request's stream
Lifecycle ==
  IF TornDown
  THEN (IF hist.last.name = "writecb" THEN "Closed" ELSE "Failed")
  ELSE CASE bev.state = "connecting" -> "Resolving"
         [] bev.state = "handshaken" -> "TlsHandshaking"
         [] bev.state = "open" ->
              (IF hist.closed_reported THEN "Draining" ELSE "ProtocolActive")
         [] OTHER -> "Idle"

LifecycleOrder ==
  { <<"Idle", "Resolving">>, <<"Resolving", "TlsHandshaking">>,
    <<"TlsHandshaking", "ProtocolActive">>, <<"ProtocolActive", "Draining">>,
    <<"Draining", "Closed">> }
  \cup { <<s, "Failed">> :
           s \in {"Resolving", "TlsHandshaking", "ProtocolActive", "Draining"} }

\* the lifecycle as the event loop sees it: the order of the states, GOAWAY
\* before Closed, and no step from Closed or Failed that changes the context
C15_StatesInOrder ==
  /\ [][Lifecycle' # Lifecycle => <<Lifecycle, Lifecycle'>> \in LifecycleOrder]_vars
  /\ [](Lifecycle = "Closed" => hist.closed_reported /\ hist.goaways > 0)
  /\ [][(Lifecycle \in {"Closed", "Failed"}) =>
          (UNCHANGED <<session_data, stream_data, session, bev, hist>>)]_vars

\* C15: the lifecycle moves only along Idle, Resolving, TlsHandshaking,
\* ProtocolActive, Draining, Closed, or into Failed; Closed is entered only
\* from Draining, after the close of the captured stream submitted GOAWAY;
\* and once Closed or Failed is entered nothing changes the state or touches
\* the connection context any more, the rest of the entering callback
\* included.
C15_LifecycleOrder ==
  /\ C15_StatesInOrder
  /\ [](Lifecycle \in {"Closed", "Failed"} => ~hist.dead_use)

\* C16: every read-ready handler offers all the input there is to ingestion;
\* when ingestion returns n >= 0 it drains exactly n from the front of the
\* input and writes every frame the engine queued to the transport before it
\* returns; when ingestion returns a negative value it drains nothing and
\* tears the connection down.
C16_ReadcbDrainsAndFlushes ==
  hist.last.name = "readcb" =>
    /\ hist.last.offered > 0
    /\ hist.last.rv >= 0 =>
          /\ hist.last.drained = hist.last.rv
          /\ hist.last.left = hist.last.offered - hist.last.rv
          /\ hist.last.written = hist.last.queued
          /\ session_data.session = LIVE => session.ob = <<>>
          /\ ~hist.last.tore
    /\ hist.last.rv < 0 =>
          /\ hist.last.drained = 0
          /\ hist.last.tore
          /\ session_data.bev = NULL /\ session_data.session = NULL

\* C16 witness: a read-ready handler whose ingestion consumed two frames and
\* queued a frame, which it flushed
C16_Witness ==
  /\ hist.last.name = "readcb" /\ hist.last.rv = 2 /\ hist.last.offered = 2
  /\ hist.last.queued > 0 /\ hist.last.written > 0

\* C16, the other case reached: ingestion failed after a first good frame
C16_WitnessFatal ==
  hist.last.name = "readcb" /\ hist.last.rv < 0 /\ hist.last.offered = 2

\* C17: the client submits GOAWAY only in a stream-closed event for the
\* captured stream identifier; a stream-closed event for another identifier
\* submits nothing and changes nothing; and at most one GOAWAY is submitted
\* in a run.
C17_GoawayOnlyOnCapturedClose ==
  /\ hist.goaways <= 1
  /\ hist.goaways > 0 =>
        \E c \in hist.closes : c.sid = c.captured /\ c.submitted = 1
  /\ \A c \in hist.closes :
        /\ c.sid = c.captured => c.submitted = 1
        /\ c.sid # c.captured => c.submitted = 0 /\ ~c.changed
  /\ (\E c \in hist.closes : c.sid = c.captured) <=> hist.closed_reported

\* C17 witness: a stream the peer opened and the captured stream both closed,
\* and one GOAWAY was submitted
C17_Witness ==
  /\ hist.goaways = 1
  /\ \E c, d \in hist.closes : c.sid # c.captured /\ d.sid = d.captured

\* C18: whenever a callback hands the protocol session or the transport to
\* the library, that handle is live: it was created and teardown has not
\* released it, the statements that follow a teardown call in the same
\* callback included.
C18_HandlesLiveWhenUsed == ~hist.dead_use

====
